---- MODULE Spec2Model ----
(***************************************************************************)
(* A model of the RDBC adapters (rdbc-mysql, rdbc-postgres, rdbc-sqlite,   *)
(* rdbc-odbc): the placeholder rewriters, the statement and result-set     *)
(* handlers, and the native client calls they make.                        *)
(*                                                                         *)
(* SQL text is a sequence of one-character strings.  The tokenizer is the  *)
(* sqlparser crate's (the release with Token::Char and Word.keyword as a   *)
(* String): string literals, delimited identifiers and line comments are   *)
(* single tokens, an unterminated delimited identifier is a tokenizer      *)
(* error, and any character with no token of its own is Token::Char.       *)
(***************************************************************************)
EXTENDS Integers, Sequences, FiniteSets

VARIABLES
    driver,   \* the adapter in use: "mysql", "postgres", "sqlite", "odbc"
    conn,     \* "none" | "open": the Connection the caller holds
    stmt,     \* the Statement the caller holds (NoStmt when none)
    rs,       \* the ResultSet the caller holds (NoRS when none)
    table,    \* the backend's table test(a): a sequence of native cells
    inserted, \* the rdbc::Value each row of table was inserted from
    last      \* what the last call returned, and the native calls it made

vars == <<driver, conn, stmt, rs, table, inserted, last>>

----------------------------------------------------------------------------
\* Bounds of the model.

\* longest SQL text the rewriter specification enumerates
MaxLen == 5
\* longest parameter list passed to execute_query / execute_update
MaxParams == 2
\* most rows the table holds
MaxRows == 2
\* the calls of next() counted on one result set
MaxCalls == 4

----------------------------------------------------------------------------
\* Characters and text.

Quote == "'"
DQuote == "\""
Sentinel == "?"
Newline == "\n"

LowerLetters ==
    {"a","b","c","d","e","f","g","h","i","j","k","l","m",
     "n","o","p","q","r","s","t","u","v","w","x","y","z"}
UpperLetters ==
    {"A","B","C","D","E","F","G","H","I","J","K","L","M",
     "N","O","P","Q","R","S","T","U","V","W","X","Y","Z"}
DigitChars == {"0","1","2","3","4","5","6","7","8","9"}

Min(S) == CHOOSE x \in S : \A y \in S : x <= y

\* the text s[i..j] (empty when j < i)
Slice(s, i, j) == IF j < i THEN <<>> ELSE SubSeq(s, i, j)

RECURSIVE Concat(_)
\* the concatenation of a sequence of texts: collect::<Vec<String>>().join("")
Concat(ss) == IF ss = <<>> THEN <<>> ELSE Head(ss) \o Concat(Tail(ss))

DigitOf(d) ==
    CASE d = 0 -> "0" [] d = 1 -> "1" [] d = 2 -> "2" [] d = 3 -> "3"
      [] d = 4 -> "4" [] d = 5 -> "5" [] d = 6 -> "6" [] d = 7 -> "7"
      [] d = 8 -> "8" [] OTHER -> "9"

RECURSIVE NatText(_)
\* format!("{}", n) for n >= 0: the decimal digits, most significant first
NatText(n) == IF n < 10 THEN <<DigitOf(n)>> ELSE Append(NatText(n \div 10), DigitOf(n % 10))

\* format!("{}", n) for a signed integer
IntText(n) == IF n < 0 THEN <<"-">> \o NatText(0 - n) ELSE NatText(n)

----------------------------------------------------------------------------
\* The tokenizer (sqlparser::tokenizer), as the rewriters use it.

\* Dialect::is_identifier_start / is_identifier_part
IdentStart == LowerLetters \cup UpperLetters \cup {"_"}
IdentPart == IdentStart \cup DigitChars

\* characters that have a token of their own (LParen, RParen, Comma, ...)
PunctChars == {"(", ")", ",", ";", "=", "*"}

Tok(type, value, quote) == [type |-> type, value |-> value, quote |-> quote]
WordTok(value, quote) == Tok("Word", value, quote)
CharTok(c) == Tok("Char", <<c>>, "")

\* the first position j >= i of s whose character is not in S (Len(s)+1 if none):
\* peeking_take_while
SpanEnd(s, i, S) ==
    LET stops == {j \in i..Len(s) : s[j] \notin S}
    IN  IF stops = {} THEN Len(s) + 1 ELSE Min(stops)

\* the first position j >= i of s holding character c (0 if none)
FindChar(s, i, c) ==
    LET hits == {j \in i..Len(s) : s[j] = c}
    IN  IF hits = {} THEN 0 ELSE Min(hits)

\* a character put in front of the value a scan returned
ConsValue(c, r) == [r EXCEPT !.value = <<c>> \o @]

RECURSIVE QuoteScan(_, _)
\* tokenize_single_quoted_string, from position j (after the opening quote):
\* a doubled quote is one quote of the value, a single quote ends the literal,
\* the end of the text ends it too.  next is the position after the literal.
QuoteScan(s, j) ==
    IF j > Len(s) THEN [next |-> j, value |-> <<>>]
    ELSE IF s[j] = Quote
         THEN IF j + 1 <= Len(s) /\ s[j + 1] = Quote
              THEN ConsValue(Quote, QuoteScan(s, j + 2))
              ELSE [next |-> j + 1, value |-> <<>>]
         ELSE ConsValue(s[j], QuoteScan(s, j + 1))

\* the tokens next_token makes, with the position after each
Scanned(tok, next) == [ok |-> TRUE, tok |-> tok, next |-> next]
\* a word up to position j (tokenize_word)
WordAt(s, i, j) == Scanned(WordTok(Slice(s, i, j - 1), ""), j)
\* a number up to position j
NumberAt(s, i, j) == Scanned(Tok("Number", Slice(s, i, j - 1), ""), j)
\* a string literal, r being what tokenize_single_quoted_string read
StringAt(r) == Scanned(Tok("SingleQuotedString", r.value, ""), r.next)
\* a delimited identifier whose closing quote is at c (0: there is none, Err)
DelimitedAt(s, i, c) ==
    IF c = 0
    THEN [ok |-> FALSE, tok |-> CharTok(DQuote), next |-> Len(s) + 1]
    ELSE Scanned(WordTok(Slice(s, i + 1, c - 1), DQuote), c + 1)
\* a line comment after "--", nl being the position of the next newline (0: none)
CommentAt(s, i, nl) ==
    IF nl = 0
    THEN Scanned(Tok("Comment", Slice(s, i + 2, Len(s)), ""), Len(s) + 1)
    ELSE Scanned(Tok("Comment", Slice(s, i + 2, nl), ""), nl + 1)

\* Tokenizer::next_token at position i: the token and the position after it.
\* ok = FALSE is a TokenizerError.
NextToken(s, i) ==
    CASE s[i] = " " \/ s[i] = Newline -> Scanned(Tok("Whitespace", <<s[i]>>, ""), i + 1)
      [] s[i] \in IdentStart -> WordAt(s, i, SpanEnd(s, i + 1, IdentPart))
      [] s[i] = Quote -> StringAt(QuoteScan(s, i + 1))
      [] s[i] = DQuote -> DelimitedAt(s, i, FindChar(s, i + 1, DQuote))
      [] s[i] \in DigitChars -> NumberAt(s, i, SpanEnd(s, i + 1, DigitChars \cup {"."}))
      [] s[i] = "-" ->
           IF i + 1 <= Len(s) /\ s[i + 1] = "-"
           THEN CommentAt(s, i, FindChar(s, i + 2, Newline))
           ELSE Scanned(Tok("Punct", <<"-">>, ""), i + 1)
      [] s[i] \in PunctChars -> Scanned(Tok("Punct", <<s[i]>>, ""), i + 1)
      [] OTHER -> Scanned(CharTok(s[i]), i + 1)

\* a token put in front of the tokens of the rest of the text
ConsTok(tok, rest) == IF rest.ok THEN [rest EXCEPT !.toks = <<tok>> \o @] ELSE rest

RECURSIVE TokenizeFrom(_, _)
RECURSIVE TokenizeStep(_, _)
\* the loop of Tokenizer::tokenize: while let Some(token) = self.next_token(..)?
TokenizeFrom(s, i) ==
    IF i > Len(s) THEN [ok |-> TRUE, toks |-> <<>>]
    ELSE TokenizeStep(s, NextToken(s, i))
TokenizeStep(s, t) ==
    IF ~t.ok THEN [ok |-> FALSE, toks |-> <<>>]
    ELSE ConsTok(t.tok, TokenizeFrom(s, t.next))

\* Tokenizer::new(&dialect, sql).tokenize(): Ok(tokens) or Err(TokenizerError)
Tokenize(sql) == TokenizeFrom(sql, 1)

\* impl Display for Token: format!("{}", t)
Render(t) ==
    CASE t.type = "Word" ->
           IF t.quote = "" THEN t.value ELSE <<t.quote>> \o t.value \o <<t.quote>>
      [] t.type = "SingleQuotedString" -> <<Quote>> \o t.value \o <<Quote>>
      [] t.type = "Comment" -> <<"-", "-">> \o t.value
      [] OTHER -> t.value

\* tokens.iter().map(|t| format!("{}", t)).collect::<Vec<String>>().join("")
RenderAll(toks) == Concat([k \in 1..Len(toks) |-> Render(toks[k])])

\* Token::Char(c) if *c == '?'
\* a reading of Token::Char('?') that looks at the token's text alone
IsSentinelText(t) == t.value = <<Sentinel>>

IsSentinelTok(t) == t.type = "Char" /\ t.value = <<Sentinel>>

----------------------------------------------------------------------------
\* rdbc::Value and its text rendering.

Int32(n) == [k |-> "Int32", n |-> n, s |-> <<>>]
UInt32(n) == [k |-> "UInt32", n |-> n, s |-> <<>>]
Str(s) == [k |-> "String", n |-> 0, s |-> s]

\* impl ToString for Value
to_string(v) ==
    CASE v.k = "Int32" -> IntText(v.n)
      [] v.k = "UInt32" -> NatText(v.n)
      [] OTHER -> <<Quote>> \o v.s \o <<Quote>>

----------------------------------------------------------------------------
\* The rewriters.  A call returns [kind, sql]: kind is "ok" (sql is the text
\* emitted), "err" (an rdbc::Error value) or "panic".

Ok(sql) == [kind |-> "ok", sql |-> sql]
Err == [kind |-> "err", sql |-> <<>>]
Panic == [kind |-> "panic", sql |-> <<>>]

\* the replacement token both rewriters build for a sentinel
Replacement(text) == WordTok(text, "")

\* a mapping that leaves the white space out
ConsMappedTrimmed(tok, rest) ==
    IF tok.type = "Whitespace" THEN rest ELSE [rest EXCEPT !.toks = <<tok>> \o @]

\* a token put in front of what the rest of the mapping made
ConsMapped(tok, rest) == [rest EXCEPT !.toks = <<tok>> \o @]

RECURSIVE MySQLMapTokens(_, _, _)
\* the closure of rewrite's tokens.iter().map(..) over the tokens left, with i
\* parameters consumed so far.  &params[i] panics when i is out of bounds.
MySQLMapTokens(toks, params, i) ==
    IF toks = <<>> THEN [panic |-> FALSE, toks |-> <<>>]
    ELSE IF IsSentinelTok(Head(toks))
         THEN IF i + 1 > Len(params)
              THEN [panic |-> TRUE, toks |-> <<>>]
              ELSE ConsMapped(Replacement(to_string(params[i + 1])),
                              MySQLMapTokens(Tail(toks), params, i + 1))
         ELSE ConsMapped(Head(toks), MySQLMapTokens(Tail(toks), params, i))

\* the second half of rewrite's closure: the tokens rendered and joined
MySQLJoin(m) == IF m.panic THEN Panic ELSE Ok(RenderAll(m.toks))

\* rewrite on what the tokenizer returned: .and_then(..).map_err(..)
MySQLRewriteTokens(t, params) ==
    IF ~t.ok THEN Err ELSE MySQLJoin(MySQLMapTokens(t.toks, params, 0))

\* the values of a list, last to first
Reversed(params) == [k \in 1..Len(params) |-> params[Len(params) + 1 - k]]

\* a rewrite that takes its values from the end of the list
RewriteLastFirst(sql, params) == MySQLRewriteTokens(Tokenize(sql), Reversed(params))

\* rdbc-mysql: fn rewrite(sql, params) -> rdbc::Result<String>
rewrite(sql, params) == MySQLRewriteTokens(Tokenize(sql), params)

RECURSIVE PgMapTokens(_, _)
\* the closure of prepare's tokens.iter().map(..), with i sentinels seen so far
PgMapTokens(toks, i) ==
    IF toks = <<>> THEN <<>>
    ELSE IF IsSentinelTok(Head(toks))
         THEN <<Replacement(<<"$">> \o NatText(i + 1))>> \o PgMapTokens(Tail(toks), i + 1)
         ELSE <<Head(toks)>> \o PgMapTokens(Tail(toks), i)

\* prepare on what the tokenizer returned: tokenizer.tokenize().unwrap() panics
\* on a TokenizerError
PgTranslateTokens(t) ==
    IF ~t.ok THEN Panic ELSE Ok(RenderAll(PgMapTokens(t.toks, 0)))

\* rdbc-postgres: the SQL translation of PConnection::prepare
PgTranslate(sql) == PgTranslateTokens(Tokenize(sql))

----------
\* The native backend behind the client libraries: one table test(a), and the
\* statements the adapters' tests send to it.  A cell is a native value; the
\* column stores whatever native value reaches it.

IntCell(n) == [t |-> "int", n |-> n, s |-> <<>>]
OidCell(n) == [t |-> "oid", n |-> n, s |-> <<>>]
TextCell(s) == [t |-> "text", n |-> 0, s |-> s]
\* SQL NULL
NullCell == [t |-> "null", n |-> 0, s |-> <<>>]

\* "INSERT INTO test (a) VALUES (" and "SELECT a FROM test"
InsertPrefix ==
    <<"I","N","S","E","R","T"," ","I","N","T","O"," ","t","e","s","t"," ","(","a",")"," ","V","A","L","U","E","S"," ","(">>
SelectSql ==
    <<"S","E","L","E","C","T"," ","a"," ","F","R","O","M"," ","t","e","s","t">>
\* "INSERT INTO test (a) VALUES (?)"
InsertSql == InsertPrefix \o <<"?", ")">>
\* "SELECT "a": an unterminated delimited identifier
UnterminatedSql == <<"S","E","L","E","C","T"," ",DQuote,"a">>

StartsWith(s, p) == Len(s) >= Len(p) /\ SubSeq(s, 1, Len(p)) = p

RECURSIVE NatValue(_)
\* the number a text of decimal digits denotes
NatValue(ds) ==
    IF ds = <<>> THEN 0
    ELSE 10 * NatValue(SubSeq(ds, 1, Len(ds) - 1))
         + (CHOOSE d \in 0..9 : DigitOf(d) = ds[Len(ds)])

IsDigits(ds) == ds # <<>> /\ \A k \in 1..Len(ds) : ds[k] \in DigitChars

\* a character put in front of the value the rest of a literal reads to
ConsBody(c, r) == [r EXCEPT !.value = <<c>> \o @]

RECURSIVE NativeStringBody(_, _)
\* the backend's reading of a string literal from position j (after the opening
\* quote): '' is a quote of the value; ok only when the closing quote is the
\* last character of the text
NativeStringBody(s, j) ==
    IF j > Len(s) THEN [ok |-> FALSE, value |-> <<>>]
    ELSE IF s[j] = Quote
         THEN IF j = Len(s) THEN [ok |-> TRUE, value |-> <<>>]
              ELSE IF s[j + 1] = Quote
                   THEN ConsBody(Quote, NativeStringBody(s, j + 2))
                   ELSE [ok |-> FALSE, value |-> <<>>]
         ELSE ConsBody(s[j], NativeStringBody(s, j + 1))

\* the text cell of a string literal the backend read
NativeText(r) == [ok |-> r.ok, cell |-> TextCell(r.value)]

\* the backend's reading of a literal: a (signed) integer or a string
NativeLiteral(text) ==
    IF IsDigits(text) THEN [ok |-> TRUE, cell |-> IntCell(NatValue(text))]
    ELSE IF text # <<>> /\ Head(text) = "-" /\ IsDigits(Tail(text))
         THEN [ok |-> TRUE, cell |-> IntCell(0 - NatValue(Tail(text)))]
    ELSE IF text # <<>> /\ Head(text) = Quote
         THEN NativeText(NativeStringBody(text, 2))
    ELSE [ok |-> FALSE, cell |-> IntCell(0)]

\* an INSERT whose VALUES list holds the literal lit
NativeInsert(lit) ==
    IF lit.ok THEN [form |-> "insert", nparams |-> 0, cell |-> lit.cell]
    ELSE [form |-> "bad", nparams |-> 0, cell |-> IntCell(0)]

\* the backend's parse of a statement text; ph is the placeholder the protocol
\* in use accepts (<<>> when it takes none).  form "bad" is a syntax error.
NativeParseText(sql, ph) ==
    IF sql = SelectSql THEN [form |-> "select", nparams |-> 0, cell |-> IntCell(0)]
    ELSE IF StartsWith(sql, InsertPrefix) /\ sql[Len(sql)] = ")"
         THEN IF ph # <<>> /\ Slice(sql, Len(InsertPrefix) + 1, Len(sql) - 1) = ph
              THEN [form |-> "insert", nparams |-> 1, cell |-> IntCell(0)]
              ELSE NativeInsert(NativeLiteral(Slice(sql, Len(InsertPrefix) + 1, Len(sql) - 1)))
         ELSE [form |-> "bad", nparams |-> 0, cell |-> IntCell(0)]

RECURSIVE StatementText(_)
\* a text without the ";" and the white space the backend ignores at its end
StatementText(s) ==
    IF s # <<>> /\ s[Len(s)] \in {";", " ", Newline}
    THEN StatementText(SubSeq(s, 1, Len(s) - 1)) ELSE s

NativeParse(sql, ph) == NativeParseText(StatementText(sql), ph)

\* the backend running one statement text with its bound native values:
\* [kind, rows, cols, affected, table].  kind "err" is the native error.
NativeFail(tbl) ==
    [kind |-> "err", rows |-> <<>>, cols |-> <<>>, affected |-> 0, table |-> tbl]

\* the backend running the parsed statement p
NativeRunParsed(p, binds, tbl, ntype) ==
    IF p.form = "bad" \/ p.nparams # Len(binds) THEN NativeFail(tbl)
    ELSE IF p.form = "select"
         THEN [kind |-> "ok", rows |-> [k \in 1..Len(tbl) |-> <<tbl[k]>>],
               cols |-> <<[name |-> "a", ntype |-> ntype]>>,
               affected |-> 0, table |-> tbl]
         ELSE [kind |-> "ok", rows |-> <<>>, cols |-> <<>>, affected |-> 1,
               table |-> Append(tbl, IF p.nparams = 1 THEN binds[1] ELSE p.cell)]

NativeRun(sql, ph, binds, tbl, ntype) ==
    NativeRunParsed(NativeParse(sql, ph), binds, tbl, ntype)

----------------------------------------------------------------------------
\* Values across the boundary.

\* the ranges of i8 and i32
I8Min == -128
I8Max == 127
I32Max == 2147483647
I32Min == (0 - I32Max) - 1

\* rdbc-mysql: to_my_value (Int32 and UInt32 both become my::Value::Int(i64))
to_my_value(v) == IF v.k = "String" THEN TextCell(v.s) ELSE IntCell(v.n)

\* rdbc-mysql: to_my_params
to_my_params(params) == [k \in 1..Len(params) |-> to_my_value(params[k])]

\* rdbc-sqlite: to_sqlite_value (i32 and u32 are stored as INTEGER)
SqliteValue(v) == IF v.k = "String" THEN TextCell(v.s) ELSE IntCell(v.n)
to_sqlite_value(values) == [k \in 1..Len(values) |-> SqliteValue(values[k])]

\* rdbc-postgres: to_postgres_value (u32 is sent as an OID, i32 as INT4)
PgValue(v) ==
    CASE v.k = "String" -> TextCell(v.s)
      [] v.k = "UInt32" -> OidCell(v.n)
      [] OTHER -> IntCell(v.n)
to_postgres_value(values) == [k \in 1..Len(values) |-> PgValue(values[k])]

\* what a typed accessor hands back: Ok(Some(value)), Ok(None), Err(..) or a panic
GotSome(n, s) == [kind |-> "ok", some |-> TRUE, n |-> n, s |-> s]
GotNone == [kind |-> "ok", some |-> FALSE, n |-> 0, s |-> <<>>]
GotErr == [kind |-> "err", some |-> FALSE, n |-> 0, s |-> <<>>]
GotPanic == [kind |-> "panic", some |-> FALSE, n |-> 0, s |-> <<>>]

\* the integer a text cell parses to, for the client libraries that parse text
TextAsInt(s) ==
    IF IsDigits(s) THEN [ok |-> TRUE, n |-> NatValue(s)]
    ELSE IF s # <<>> /\ Head(s) = "-" /\ IsDigits(Tail(s))
         THEN [ok |-> TRUE, n |-> 0 - NatValue(Tail(s))]
         ELSE [ok |-> FALSE, n |-> 0]

\* whether integer n is a value of the accessor's integer type
FitsAccessor(acc, n) ==
    CASE acc = "i8" -> I8Min <= n /\ n <= I8Max
      [] acc = "i32" -> I32Min <= n /\ n <= I32Max
      [] OTHER -> TRUE

\* mysql: row.get::<Option<T>, usize>(i).expect(..) on a cell of the row.  NULL
\* is None for every T.  The text protocol (conn.query) delivers every other
\* cell as bytes; from_value panics when the cell does not convert (f32 converts
\* from bytes and from a float only).
MySQLFromValue(acc, c) ==
    IF c.t = "null" THEN GotNone
    ELSE IF acc = "string"
    THEN IF c.t = "text" THEN GotSome(0, c.s) ELSE GotPanic
    ELSE IF c.t = "text"
         THEN IF TextAsInt(c.s).ok /\ FitsAccessor(acc, TextAsInt(c.s).n)
              THEN GotSome(TextAsInt(c.s).n, <<>>) ELSE GotPanic
         ELSE IF acc # "f32" /\ FitsAccessor(acc, c.n) THEN GotSome(c.n, <<>>) ELSE GotPanic

MySQLConvert(acc, cell, textual) ==
    MySQLFromValue(acc, IF textual /\ cell.t = "int" THEN TextCell(IntText(cell.n)) ELSE cell)

\* postgres: the column types T::accepts lets Row::get read as the accessor's T
PgAccepts(acc, ntype) ==
    CASE acc = "i8" -> ntype = "char"
      [] acc = "i32" -> ntype = "int4"
      [] acc = "i64" -> ntype = "int8"
      [] acc = "f32" -> ntype = "float4"
      [] OTHER -> ntype \in {"text", "varchar", "bpchar", "name", "unknown"}

\* postgres: Row::get::<usize, Option<T>> on a NULL cell: the column's type is
\* checked before the value is looked at
PgConvertNull(acc, ntype) == IF PgAccepts(acc, ntype) THEN GotNone ELSE GotPanic

\* postgres: Row::get::<usize, Option<T>> on a present cell panics unless T
\* accepts the column's type (i32: INT4, String: TEXT; nothing here reads OID)
PgConvert(acc, cell) ==
    IF acc = "string" /\ cell.t = "text" THEN GotSome(0, cell.s)
    ELSE IF acc = "i32" /\ cell.t = "int" THEN GotSome(cell.n, <<>>)
    ELSE GotPanic

\* rusqlite: Row::get::<usize, Option<T>> is None on NULL, and Err on a present
\* cell whose value does not convert
SqliteConvert(acc, cell) ==
    IF cell.t = "null" THEN GotNone
    ELSE IF acc = "string"
    THEN IF cell.t = "text" THEN GotSome(0, cell.s) ELSE GotErr
    ELSE IF cell.t = "int" /\ FitsAccessor(acc, cell.n) THEN GotSome(cell.n, <<>>)
         ELSE GotErr

\* the canonical DataType of a native column type (each adapter's to_rdbc_type);
\* rdbc-mysql's ends in todo!() for the types it does not list
MySQLToRdbcType(ntype) ==
    CASE ntype = "MYSQL_TYPE_FLOAT" -> "Float"
      [] ntype = "MYSQL_TYPE_DOUBLE" -> "Double"
      [] ntype = "MYSQL_TYPE_TINY" -> "Byte"
      [] ntype = "MYSQL_TYPE_SHORT" -> "Short"
      [] ntype \in {"MYSQL_TYPE_LONG", "MYSQL_TYPE_LONGLONG"} -> "Integer"
      [] ntype \in {"MYSQL_TYPE_DECIMAL", "MYSQL_TYPE_NEWDECIMAL"} -> "Decimal"
      [] ntype \in {"MYSQL_TYPE_STRING", "MYSQL_TYPE_VAR_STRING", "MYSQL_TYPE_VARCHAR"} -> "Utf8"
      [] ntype \in {"MYSQL_TYPE_TINY_BLOB", "MYSQL_TYPE_MEDIUM_BLOB",
                    "MYSQL_TYPE_LONG_BLOB", "MYSQL_TYPE_BLOB"} -> "Binary"
      [] ntype = "MYSQL_TYPE_BIT" -> "Bool"
      [] ntype = "MYSQL_TYPE_DATE" -> "Date"
      [] ntype = "MYSQL_TYPE_TIME" -> "Time"
      [] ntype \in {"MYSQL_TYPE_TIMESTAMP", "MYSQL_TYPE_DATETIME"} -> "Datetime"
      [] OTHER -> "panic"
PgToRdbcType(ntype) == IF ntype = "" THEN "Bool" ELSE "Utf8"
SqliteToRdbcType(ntype) == IF ntype = "INT" THEN "Integer" ELSE "Utf8"

\* the native type each backend reports for column a of test (a INT NOT NULL)
NativeColumnType(d) ==
    CASE d = "mysql" -> "MYSQL_TYPE_LONG"
      [] d = "postgres" -> "int4"
      [] OTHER -> "INT"

----------------------------------------------------------------------------
\* The objects a caller holds, and what a call returns.

NoStmt == [kind |-> "none", sql |-> <<>>]
Statement(kind, sql) == [kind |-> kind, sql |-> sql]

\* a result set: rows and cols are the native reply, i the rows taken from it so
\* far (PResultSet.i), cur the row the accessors read (0: none: MySQLResultSet.row
\* is None, rusqlite's Rows holds no row), live whether rusqlite's Rows still
\* holds its statement, effect the row a stepped INSERT adds, textual whether the
\* cells came over mysql's text protocol, meta the columns PResultSet stores.
\* failing is the row whose fetch the native client fails (0: none).
\* What the caller has seen of it: calls, the calls of next() so far; ended,
\* whether one of them returned false; seen, what the first meta_data() returned.
NoRS ==
    [open |-> FALSE, rows |-> <<>>, cols |-> <<>>, i |-> 0, cur |-> 0,
     live |-> FALSE, effect |-> <<>>, from |-> <<>>, textual |-> FALSE, meta |-> <<>>,
     calls |-> 0, ended |-> FALSE, seen |-> <<>>, failing |-> 0]

\* the record of a call: its name, how it ended ("ok", "err", "panic"), the SQL
\* texts it handed to the native client, and what it returned
Ret(op, kind) ==
    [op |-> op, kind |-> kind, sent |-> <<>>, params |-> <<>>, sql |-> <<>>,
     flag |-> FALSE, count |-> 0, got |-> GotNone, acc |-> "", idx |-> 0,
     meta |-> <<>>, attempts |-> 0, url |-> "", name |-> "", type |-> "", opened |-> "",
     passed |-> {}, query |-> <<>>]

Running == last.kind # "panic"

----------------------------------------------------------------------------
\* Driver::connect: [kind, attempts, opened], opened being what the native client
\* was given to open

\* mysql: Opts::from_url(&url).expect(..), then my::Conn::new(opts).map_err(..)?
MySQLConnect(url) ==
    CASE url = "malformed" -> [kind |-> "panic", attempts |-> 0, opened |-> url]
      [] url = "unreachable" -> [kind |-> "err", attempts |-> 1, opened |-> url]
      [] OTHER -> [kind |-> "ok", attempts |-> 1, opened |-> url]

\* postgres: postgres::Connection::connect(url, TlsMode::None).map_err(..)
PgConnect(url) ==
    CASE url = "malformed" -> [kind |-> "err", attempts |-> 0, opened |-> url]
      [] url = "unreachable" -> [kind |-> "err", attempts |-> 1, opened |-> url]
      [] OTHER -> [kind |-> "ok", attempts |-> 1, opened |-> url]

\* sqlite: rusqlite::Connection::open_in_memory(), whatever the url
SqliteConnect(url) == [kind |-> "ok", attempts |-> 1, opened |-> ":memory:"]

\* odbc: env.connect_with_connection_string(connect_string).unwrap()
OdbcConnect(url) ==
    IF url = "good" THEN [kind |-> "ok", attempts |-> 1, opened |-> url]
    ELSE [kind |-> "panic", attempts |-> 1, opened |-> url]

DriverConnect(d, url) ==
    CASE d = "mysql" -> MySQLConnect(url)
      [] d = "postgres" -> PgConnect(url)
      [] d = "sqlite" -> SqliteConnect(url)
      [] OTHER -> OdbcConnect(url)

Urls == {"good", "malformed", "unreachable"}

Connect(url) ==
    /\ Running
    /\ conn = "none"
    /\ \E r \in {DriverConnect(driver, url)} :
       /\ conn' = IF r.kind = "ok" THEN "open" ELSE "none"
       /\ table' = IF driver = "sqlite" THEN <<>> ELSE table
       /\ inserted' = IF driver = "sqlite" THEN <<>> ELSE inserted
       /\ last' = [Ret("connect", r.kind) EXCEPT
                    !.attempts = r.attempts, !.url = url, !.opened = r.opened]
    /\ UNCHANGED <<driver, stmt, rs>>

----------------------------------------------------------------------------
\* Connection::create and Connection::prepare: [kind, stmt, sent]

\* the placeholder each backend's prepared statements take
Placeholder(d) == IF d = "postgres" THEN <<"$", "1">> ELSE <<"?">>

\* the native client preparing a text: Err on a syntax error
NativePrepared(d, kind, sql) ==
    IF NativeParse(sql, Placeholder(d)).form = "bad"
    THEN [kind |-> "err", stmt |-> NoStmt, sent |-> <<sql>>]
    ELSE [kind |-> "ok", stmt |-> Statement(kind, sql), sent |-> <<sql>>]

\* MySQLConnection::create
MySQLCreate(sql) == [kind |-> "ok", stmt |-> Statement("MySQLStatement", sql), sent |-> <<>>]

\* MySQLConnection::prepare: self.conn.prepare(&sql).map_err(to_rdbc_err)?
MySQLPrepare(sql) == NativePrepared("mysql", "MySQLPreparedStatement", sql)

\* PConnection::prepare (and create, which calls it)
PgPrepared(r) ==
    IF r.kind = "ok"
    THEN [kind |-> "ok", stmt |-> Statement("PStatement", r.sql), sent |-> <<>>]
    ELSE [kind |-> r.kind, stmt |-> NoStmt, sent |-> <<>>]
PgPrepare(sql) == PgPrepared(PgTranslate(sql))

\* SConnection::prepare (and create, which calls it)
SqlitePrepare(sql) == NativePrepared("sqlite", "SStatement", sql)

\* OdbcConnection::prepare (and create): both native calls are unwrapped
OdbcUnwrap(r) == IF r.kind = "ok" THEN r ELSE [r EXCEPT !.kind = "panic"]
OdbcPrepare(sql) == OdbcUnwrap(NativePrepared("odbc", "OdbcStatement", sql))

ConnectionCreate(d, sql) ==
    CASE d = "mysql" -> MySQLCreate(sql)
      [] d = "postgres" -> PgPrepare(sql)
      [] d = "sqlite" -> SqlitePrepare(sql)
      [] OTHER -> OdbcPrepare(sql)

ConnectionPrepare(d, sql) ==
    CASE d = "mysql" -> MySQLPrepare(sql)
      [] d = "postgres" -> PgPrepare(sql)
      [] d = "sqlite" -> SqlitePrepare(sql)
      [] OTHER -> OdbcPrepare(sql)

\* a connection any number of statements may borrow at once
ConnectionShared == TRUE

\* create and prepare take &mut self and return a Statement + '_: the connection
\* stays mutably borrowed while that statement, or a result set of it, is held
ConnectionFree == stmt = NoStmt /\ rs = NoRS

MakeStatement(op, r, sql) ==
    /\ Running
    /\ conn = "open" /\ ConnectionFree
    /\ stmt' = r.stmt
    /\ last' = [Ret(op, r.kind) EXCEPT !.sent = r.sent, !.sql = sql]
    /\ UNCHANGED <<driver, conn, rs, table, inserted>>

Create(sql) == MakeStatement("create", ConnectionCreate(driver, sql), sql)
Prepare(sql) == MakeStatement("prepare", ConnectionPrepare(driver, sql), sql)

----------------------------------------------------------------------------
\* Statement::execute_query and Statement::execute_update.  What each adapter
\* does with the statement and the parameters: [kind, sent, rows, cols,
\* affected, table], sent being the SQL texts handed to the native client.

Executed(kind, sent, run) ==
    [kind |-> kind, sent |-> sent, rows |-> run.rows, cols |-> run.cols,
     affected |-> run.affected, table |-> run.table]

\* what a call returns that handed sql to the native client, which ran it
Sent(sql, run) == Executed(run.kind, <<sql>>, run)

\* MySQLStatement: let sql = rewrite(&self.sql, params)?; self.conn.query(&sql)
MySQLQueryRewritten(r, tbl) ==
    IF r.kind # "ok" THEN Executed(r.kind, <<>>, NativeFail(tbl))
    ELSE Sent(r.sql, NativeRun(r.sql, <<>>, <<>>, tbl, NativeColumnType("mysql")))
MySQLStatementExecute(s, params, tbl) == MySQLQueryRewritten(rewrite(s.sql, params), tbl)

\* MySQLPreparedStatement: self.stmt.execute(to_my_params(params)); the client
\* refuses a parameter count that is not the statement's before sending anything
MySQLPreparedExecute(s, params, tbl) ==
    IF Len(params) # NativeParse(s.sql, Placeholder("mysql")).nparams
    THEN Executed("err", <<>>, NativeFail(tbl))
    ELSE Sent(s.sql, NativeRun(s.sql, Placeholder("mysql"), to_my_params(params),
                               tbl, NativeColumnType("mysql")))

\* PStatement: self.conn.query(&self.sql, params) / self.conn.execute(..): the
\* client has the server prepare the text (p is the server's parse), then
\* asserts the parameter count
PgExecuteParsed(s, params, tbl, p) ==
    IF p.form = "bad" THEN Executed("err", <<s.sql>>, NativeFail(tbl))
    ELSE IF Len(params) # p.nparams THEN Executed("panic", <<s.sql>>, NativeFail(tbl))
    ELSE Sent(s.sql, NativeRunParsed(p, to_postgres_value(params), tbl,
                                     NativeColumnType("postgres")))
PgExecute(s, params, tbl) ==
    PgExecuteParsed(s, params, tbl, NativeParse(s.sql, Placeholder("postgres")))

\* SStatement: self.stmt.query(&params) / self.stmt.execute(&params): rusqlite
\* asserts the parameter count while binding
SqliteExecuteParsed(s, params, tbl, p) ==
    IF Len(params) # p.nparams THEN Executed("panic", <<>>, NativeFail(tbl))
    ELSE Sent(s.sql, NativeRunParsed(p, to_sqlite_value(params), tbl,
                                     NativeColumnType("sqlite")))
SqliteExecute(s, params, tbl) ==
    SqliteExecuteParsed(s, params, tbl, NativeParse(s.sql, Placeholder("sqlite")))

\* OdbcStatement: unimplemented!()
OdbcExecute(s, params, tbl) == Executed("panic", <<>>, NativeFail(tbl))

StatementExecute(s, params, tbl) ==
    CASE s.kind = "MySQLStatement" -> MySQLStatementExecute(s, params, tbl)
      [] s.kind = "MySQLPreparedStatement" -> MySQLPreparedExecute(s, params, tbl)
      [] s.kind = "PStatement" -> PgExecute(s, params, tbl)
      [] s.kind = "SStatement" -> SqliteExecute(s, params, tbl)
      [] OTHER -> OdbcExecute(s, params, tbl)

\* the columns PStatement::execute_query collects into PResultSet.meta
PgMeta(cols) == [k \in 1..Len(cols) |-> [name |-> cols[k].name, type |-> PgToRdbcType(cols[k].ntype)]]

\* the result set execute_query returns for a native reply.  rusqlite's query
\* runs nothing yet: the statement is stepped by next(), an INSERT included.
NewResultSet(s, x, tbl, params) ==
    [open |-> TRUE, rows |-> x.rows, cols |-> x.cols, i |-> 0, cur |-> 0,
     live |-> s.kind = "SStatement",
     effect |-> IF s.kind = "SStatement" /\ Len(x.table) > Len(tbl)
                THEN <<x.table[Len(x.table)]>> ELSE <<>>,
     from |-> IF s.kind = "SStatement" /\ Len(x.table) > Len(tbl)
              THEN <<params[1]>> ELSE <<>>,
     textual |-> s.kind = "MySQLStatement",
     meta |-> IF s.kind = "PStatement" THEN PgMeta(x.cols) ELSE <<>>,
     calls |-> 0, ended |-> FALSE, seen |-> <<>>, failing |-> 0]

\* the table after execute_query returns
TableAfterQuery(s, x, tbl) == IF s.kind = "SStatement" THEN tbl ELSE x.table

\* the count execute_update returns: affected_rows() for mysql, the command
\* tag's count for postgres, and for rusqlite's execute Err(ExecuteReturnedResults)
\* when the statement returns a row
UpdateResult(s, x) ==
    IF x.kind # "ok" THEN [kind |-> x.kind, count |-> 0]
    ELSE IF s.kind = "SStatement" /\ x.rows # <<>> THEN [kind |-> "err", count |-> 0]
    ELSE IF s.kind = "PStatement" /\ x.cols # <<>> THEN [kind |-> "ok", count |-> Len(x.rows)]
    ELSE [kind |-> "ok", count |-> x.affected]

\* the values the rows of a table were inserted from
InsertedAfter(old, new, params) ==
    IF Len(new) > Len(old) THEN Append(inserted, params[1]) ELSE inserted

\* a one-shot statement that keeps the SQL it sent as its own
StatementRewritten(s, x) ==
    IF s.kind = "MySQLStatement" /\ x.sent # <<>> THEN [s EXCEPT !.sql = x.sent[1]] ELSE s

\* the statement after an execution: execute_query and execute_update take
\* &mut self and assign nothing to it; the rewritten SQL is a local
StatementAfter(s, x) == s

\* a statement any number of result sets may borrow at once
StatementShared == TRUE

\* execute_query takes &mut self and returns a ResultSet + '_: the statement
\* stays mutably borrowed while that result set is held
StatementFree == rs = NoRS

ExecuteQuery(params) ==
    /\ Running
    /\ stmt # NoStmt /\ StatementFree
    /\ \E x \in {StatementExecute(stmt, params, table)} :
           /\ Len(x.table) <= MaxRows
           /\ rs' = IF x.kind = "ok" THEN NewResultSet(stmt, x, table, params) ELSE NoRS
           /\ table' = TableAfterQuery(stmt, x, table)
           /\ inserted' = InsertedAfter(table, TableAfterQuery(stmt, x, table), params)
           /\ last' = [Ret("execute_query", x.kind) EXCEPT !.sent = x.sent, !.params = params]
           /\ stmt' = StatementAfter(stmt, x)
    /\ UNCHANGED <<driver, conn>>

ExecuteUpdate(params) ==
    /\ Running
    /\ stmt # NoStmt /\ StatementFree
    /\ \E x \in {StatementExecute(stmt, params, table)} :
           /\ Len(x.table) <= MaxRows
           /\ table' = x.table
           /\ inserted' = InsertedAfter(table, x.table, params)
           /\ \E u \in {UpdateResult(stmt, x)} :
                 last' = [Ret("execute_update", u.kind) EXCEPT
                            !.sent = x.sent, !.params = params, !.count = u.count]
           /\ stmt' = StatementAfter(stmt, x)
    /\ UNCHANGED <<driver, conn, rs>>

----------------------------------------------------------------------------
\* ResultSet::next, the typed accessors and meta_data.

\* a next that keeps the last row as the current one when the rows are used up
MySQLNextKeepsRow(r) ==
    IF r.i < Len(r.rows)
    THEN [kind |-> "ok", flag |-> TRUE, rs |-> [r EXCEPT !.i = r.i + 1, !.cur = r.i + 1]]
    ELSE [kind |-> "ok", flag |-> r.cur # 0, rs |-> r]

\* MySQLResultSet::next: self.row = self.result.next(); self.row.is_some().
\* A fetch that fails is Some(Err(..)): is_some() all the same.
MySQLNext(r) ==
    IF r.i < Len(r.rows)
    THEN [kind |-> "ok", flag |-> TRUE, rs |-> [r EXCEPT !.i = r.i + 1, !.cur = r.i + 1]]
    ELSE [kind |-> "ok", flag |-> FALSE, rs |-> [r EXCEPT !.cur = 0]]

\* PResultSet::next
PgNext(r) ==
    IF r.i < Len(r.rows)
    THEN [kind |-> "ok", flag |-> TRUE, rs |-> [r EXCEPT !.i = r.i + 1]]
    ELSE [kind |-> "ok", flag |-> FALSE, rs |-> r]

\* SResultSet::next: self.rows.next().unwrap().is_some().  rusqlite steps the
\* statement while it holds it, and lets go of it when the step finds no row;
\* the unwrap panics on a step that fails.
SqliteNext(r) ==
    IF r.live /\ r.i < Len(r.rows) /\ r.i + 1 = r.failing
    THEN [kind |-> "panic", flag |-> FALSE, rs |-> r]
    ELSE IF r.live /\ r.i < Len(r.rows)
    THEN [kind |-> "ok", flag |-> TRUE, rs |-> [r EXCEPT !.i = r.i + 1, !.cur = r.i + 1]]
    ELSE [kind |-> "ok", flag |-> FALSE,
          rs |-> [r EXCEPT !.cur = 0, !.live = FALSE, !.effect = <<>>, !.from = <<>>]]

ResultSetNext(d, r) ==
    CASE d = "mysql" -> MySQLNext(r)
      [] d = "postgres" -> PgNext(r)
      [] OTHER -> SqliteNext(r)

Advance ==
    /\ Running
    /\ rs.open /\ rs.calls < MaxCalls
    /\ \E r \in {ResultSetNext(driver, rs)} :
       /\ rs' = [r.rs EXCEPT !.calls = @ + 1, !.ended = @ \/ ~r.flag]
       /\ table' = IF rs.live THEN table \o rs.effect ELSE table
       /\ inserted' = IF rs.live THEN inserted \o rs.from ELSE inserted
       /\ last' = [Ret("next", r.kind) EXCEPT !.flag = r.flag]
    /\ UNCHANGED <<driver, conn, stmt>>

\* MySQLResultSet::get_*: match &self.row { Some(Ok(row)) => Ok(row.get(i).expect(..)),
\* _ => Ok(None) }; row.get is None for an index that is no column, and
\* self.row is Some(Err(..)) after a fetch that failed
MySQLGet(r, acc, idx) ==
    IF r.cur = 0 \/ r.cur = r.failing THEN GotNone
    ELSE IF idx + 1 > Len(r.rows[r.cur]) THEN GotPanic
    ELSE MySQLConvert(acc, r.rows[r.cur][idx + 1], r.textual)

\* a get_* that reads the first row wherever the cursor is
PgGetFirstRow(r, acc, idx) ==
    IF r.i = 0 THEN GotPanic
    ELSE IF idx + 1 > Len(r.rows[1]) THEN GotPanic
    ELSE PgConvert(acc, r.rows[1][idx + 1])

\* PResultSet::get_*: Ok(self.rows.get(self.i - 1).get(i as usize)); self.i - 1
\* underflows at 0, and Row::get panics for an index that is no column
PgGet(r, acc, idx) ==
    IF r.i = 0 THEN GotPanic
    ELSE IF idx + 1 > Len(r.rows[r.i]) THEN GotPanic
    ELSE IF r.rows[r.i][idx + 1].t = "null" THEN PgConvertNull(acc, r.cols[idx + 1].ntype)
    ELSE PgConvert(acc, r.rows[r.i][idx + 1])

\* SResultSet::get_*: self.rows.get().unwrap().get(i as usize).map_err(..);
\* get_f32 is Err("f32 not supported") whatever the row
SqliteGet(r, acc, idx) ==
    IF acc = "f32" THEN GotErr
    ELSE IF r.cur = 0 THEN GotPanic
    ELSE IF idx + 1 > Len(r.rows[r.cur]) THEN GotErr
    ELSE SqliteConvert(acc, r.rows[r.cur][idx + 1])

ResultSetGet(d, r, acc, idx) ==
    CASE d = "mysql" -> MySQLGet(r, acc, idx)
      [] d = "postgres" -> PgGet(r, acc, idx)
      [] OTHER -> SqliteGet(r, acc, idx)

Accessors == {"i8", "i32", "i64", "string"}

Get(acc, idx) ==
    /\ Running
    /\ rs.open
    /\ \E g \in {ResultSetGet(driver, rs, acc, idx)} :
          last' = [Ret("get", g.kind) EXCEPT !.got = g, !.acc = acc, !.idx = idx]
    /\ UNCHANGED <<driver, conn, stmt, rs, table, inserted>>

\* MySQLResultSet::meta_data: self.result.columns_ref() mapped through to_rdbc_type
MySQLMetaData(r) ==
    IF \E k \in 1..Len(r.cols) : MySQLToRdbcType(r.cols[k].ntype) = "panic"
    THEN [kind |-> "panic", meta |-> <<>>]
    ELSE [kind |-> "ok",
          meta |-> [k \in 1..Len(r.cols) |->
                      [name |-> r.cols[k].name, type |-> MySQLToRdbcType(r.cols[k].ntype)]]]

\* PResultSet::meta_data: Ok(Rc::new(self.meta.clone()))
PgMetaData(r) == [kind |-> "ok", meta |-> r.meta]

\* SResultSet::meta_data: self.rows.columns().unwrap() mapped through to_rdbc_type;
\* rusqlite's Rows has no columns once it has let go of its statement
SqliteMetaData(r) ==
    IF ~r.live THEN [kind |-> "panic", meta |-> <<>>]
    ELSE [kind |-> "ok",
          meta |-> [k \in 1..Len(r.cols) |->
                      [name |-> r.cols[k].name, type |-> SqliteToRdbcType(r.cols[k].ntype)]]]

ResultSetMetaData(d, r) ==
    CASE d = "mysql" -> MySQLMetaData(r)
      [] d = "postgres" -> PgMetaData(r)
      [] OTHER -> SqliteMetaData(r)

\* a meta_data that puts the cursor back before the first row
SeenAndRewound(r, m) ==
    [r EXCEPT !.seen = IF @ = <<>> THEN <<m>> ELSE @, !.i = 0, !.cur = 0]

\* the result set after meta_data(&self) returned m: nothing of it has changed,
\* the caller has seen m
Seen(r, m) == [r EXCEPT !.seen = IF @ = <<>> THEN <<m>> ELSE @]

MetaData ==
    /\ Running
    /\ rs.open
    /\ \E m \in {ResultSetMetaData(driver, rs)} :
          /\ last' = [Ret("meta_data", m.kind) EXCEPT !.meta = m.meta]
          /\ rs' = Seen(rs, m)
    /\ UNCHANGED <<driver, conn, stmt, table, inserted>>

\* impl ResultSetMetaData for Vec<Column>: self.len(), self[i as usize].name,
\* self[i as usize].data_type; indexing past the end panics
num_columns(meta) == Len(meta)

NoColumn == [kind |-> "panic", name |-> "", type |-> ""]

\* a column_name that counts the columns from one
column_name_from_one(meta, i) ==
    IF i < 1 \/ i > Len(meta) THEN NoColumn
    ELSE [kind |-> "ok", name |-> meta[i].name, type |-> ""]

column_name(meta, i) ==
    IF i >= Len(meta) THEN NoColumn
    ELSE [kind |-> "ok", name |-> meta[i + 1].name, type |-> ""]

column_type(meta, i) ==
    IF i >= Len(meta) THEN NoColumn
    ELSE [kind |-> "ok", name |-> "", type |-> meta[i + 1].type]

\* the meta data a caller holds: what its first meta_data() returned
MetaHeld == rs.open /\ rs.seen # <<>> /\ rs.seen[1].kind = "ok"

NumColumns ==
    /\ Running
    /\ MetaHeld
    /\ last' = [Ret("num_columns", "ok") EXCEPT !.count = num_columns(rs.seen[1].meta)]
    /\ UNCHANGED <<driver, conn, stmt, rs, table, inserted>>

ColumnName(i) ==
    /\ Running
    /\ MetaHeld
    /\ \E c \in {column_name(rs.seen[1].meta, i)} :
          last' = [Ret("column_name", c.kind) EXCEPT !.idx = i, !.name = c.name]
    /\ UNCHANGED <<driver, conn, stmt, rs, table, inserted>>

ColumnType(i) ==
    /\ Running
    /\ MetaHeld
    /\ \E c \in {column_type(rs.seen[1].meta, i)} :
          last' = [Ret("column_type", c.kind) EXCEPT !.idx = i, !.type = c.type]
    /\ UNCHANGED <<driver, conn, stmt, rs, table, inserted>>

----------------------------------------------------------------------------
\* The end of a borrow: the caller drops what it holds, innermost first.

\* a statement that may go while a result set of it is held
DropsAnyTime(held) == TRUE

\* a value is dropped only when nothing borrowed from it is held any more
NothingBorrowed(held) == ~held

DropResultSet ==
    /\ Running
    /\ rs.open
    /\ rs' = NoRS
    /\ last' = Ret("drop_result_set", "ok")
    /\ UNCHANGED <<driver, conn, stmt, table, inserted>>

DropStatement ==
    /\ Running
    /\ stmt # NoStmt /\ NothingBorrowed(rs.open)
    /\ stmt' = NoStmt
    /\ last' = Ret("drop_statement", "ok")
    /\ UNCHANGED <<driver, conn, rs, table, inserted>>

Close ==
    /\ Running
    /\ conn = "open" /\ NothingBorrowed(stmt # NoStmt)
    /\ conn' = "none"
    /\ last' = Ret("close", "ok")
    /\ UNCHANGED <<driver, stmt, rs, table, inserted>>

----------------------------------------------------------------------------
\* The adapters in use: a caller connects, makes a statement, executes it, walks
\* the result set, and drops what it holds.

Drivers == {"mysql", "postgres", "sqlite", "odbc"}

\* the SQL texts of the adapters' tests, and one that does not tokenize
SqlCatalogue == {InsertSql, SelectSql, UnterminatedSql}

\* the values a caller passes
Values == {Int32(123), UInt32(300), Str(<<Quote>>)}

\* every list of at most n values of V
ParamLists(V, n) == UNION {[1..k -> V] : k \in 0..n}

Init ==
    /\ driver \in Drivers
    /\ conn = "none"
    /\ stmt = NoStmt
    /\ rs = NoRS
    /\ table = <<>>
    /\ inserted = <<>>
    /\ last = Ret("init", "ok")

Next ==
    \/ \E url \in Urls : Connect(url)
    \/ \E sql \in SqlCatalogue : Create(sql)
    \/ \E sql \in SqlCatalogue : Prepare(sql)
    \/ \E params \in ParamLists(Values, MaxParams) : ExecuteQuery(params)
    \/ \E params \in ParamLists(Values, MaxParams) : ExecuteUpdate(params)
    \/ Advance
    \/ \E acc \in Accessors, idx \in 0..1 : Get(acc, idx)
    \/ MetaData
    \/ DropResultSet
    \/ DropStatement
    \/ Close

Spec == Init /\ [][Next]_vars

----------------------------------------------------------------------------
\* The rewriters on every short SQL text: a connected mysql or postgres caller
\* makes a statement of any text over RewriteAlphabet and executes it.

RewriteAlphabet == {"a", Sentinel, Quote, DQuote, "-", Newline}

\* every text of at most n characters of A
Texts(A, n) == UNION {[1..k -> A] : k \in 0..n}

RewriteValues == {Int32(5), Str(<<Sentinel>>)}

InitRewrite ==
    /\ driver \in {"mysql", "postgres"}
    /\ conn = "open"
    /\ stmt = NoStmt
    /\ rs = NoRS
    /\ table = <<>>
    /\ inserted = <<>>
    /\ last = Ret("init", "ok")

\* one statement is made; a one-shot MySQL statement, whose SQL is rewritten when
\* it is executed, is executed once
NextRewrite ==
    \/ last.op = "init" /\ \E sql \in Texts(RewriteAlphabet, MaxLen) : Create(sql)
    \/ last.op = "init" /\ \E sql \in Texts(RewriteAlphabet, MaxLen) : Prepare(sql)
    \/ /\ last.op = "create" /\ stmt.kind = "MySQLStatement"
       /\ \E params \in ParamLists(RewriteValues, MaxParams) : ExecuteQuery(params)
    \/ /\ last.op = "create" /\ stmt.kind = "MySQLStatement"
       /\ \E params \in ParamLists(RewriteValues, MaxParams) : ExecuteUpdate(params)

SpecRewrite == InitRewrite /\ [][NextRewrite]_vars

----------------------------------------------------------------------------
\* The result sets of queries over nullable columns of several native types: a
\* caller holds the result set of SELECT * over a one-row table, walks it, reads
\* its cells with every accessor and asks for its meta data.

MaxCols == 2

\* "SELECT * FROM t"
SelectAllSql == <<"S","E","L","E","C","T"," ","*"," ","F","R","O","M"," ","t">>

\* the native column types in play: an integer type, a text type, and a third
\* one, per backend
NativeTypes(d) ==
    CASE d = "mysql" -> {"MYSQL_TYPE_LONG", "MYSQL_TYPE_VAR_STRING", "MYSQL_TYPE_GEOMETRY"}
      [] d = "postgres" -> {"int4", "text", "varchar"}
      [] OTHER -> {"INT", "TEXT", "REAL"}

IntegerTypes == {"MYSQL_TYPE_LONG", "int4", "INT"}

\* the name of the column of each type in t
ColumnNameOf(ntype) ==
    IF ntype \in IntegerTypes THEN "a"
    ELSE IF ntype \in {"MYSQL_TYPE_VAR_STRING", "text", "TEXT"} THEN "b"
    ELSE "c"

\* the cells a column of a native type holds
CellsOf(ntype) ==
    IF ntype \in IntegerTypes THEN {IntCell(300), NullCell}
    ELSE {TextCell(<<"a">>), NullCell}

\* a column of t with its cell in the one row
ColumnsWithCell(d) ==
    UNION {{[name |-> ColumnNameOf(nt), ntype |-> nt, cell |-> c] : c \in CellsOf(nt)}
           : nt \in NativeTypes(d)}

\* the tables t of at most n columns
TablesOf(d, n) == UNION {[1..k -> ColumnsWithCell(d)] : k \in 1..n}

\* the native reply to SELECT * FROM t
SelectAllReply(t) ==
    [kind |-> "ok", rows |-> <<[k \in 1..Len(t) |-> t[k].cell]>>,
     cols |-> [k \in 1..Len(t) |-> [name |-> t[k].name, ntype |-> t[k].ntype]],
     affected |-> 0, table |-> <<>>]

StatementKinds(d) ==
    CASE d = "mysql" -> {"MySQLStatement", "MySQLPreparedStatement"}
      [] d = "postgres" -> {"PStatement"}
      [] OTHER -> {"SStatement"}

CellAccessors == Accessors \cup {"f32"}

\* the rows whose fetch may fail (0: none): mysql and rusqlite fetch a row at
\* each next(), postgres has fetched them all when execute_query returns
FetchFailures(d) == IF d = "postgres" THEN {0} ELSE {0, 1}

InitResultSet ==
    /\ driver \in {"mysql", "postgres", "sqlite"}
    /\ conn = "open"
    /\ stmt \in {Statement(k, SelectAllSql) : k \in StatementKinds(driver)}
    /\ \E t \in TablesOf(driver, MaxCols), f \in FetchFailures(driver) :
          rs = [NewResultSet(stmt, Sent(SelectAllSql, SelectAllReply(t)), <<>>, <<>>)
                  EXCEPT !.failing = f]
    /\ table = <<>>
    /\ inserted = <<>>
    /\ last = [Ret("execute_query", "ok") EXCEPT !.sent = <<SelectAllSql>>]

NextResultSet ==
    \/ Advance
    \/ \E acc \in CellAccessors, idx \in 0..MaxCols : Get(acc, idx)
    \/ MetaData
    \/ NumColumns
    \/ \E i \in 0..MaxCols : ColumnName(i)
    \/ \E i \in 0..MaxCols : ColumnType(i)
    \/ DropResultSet

SpecResultSet == InitResultSet /\ [][NextResultSet]_vars

----------------------------------------------------------------------------
\* rdbc-cli: main connects and reads lines; a line that ends a statement has the
\* gathered query executed.  last.query is main's query after the line was
\* handled, last.sql of an "execute" call the text that was executed.

\* longest query the input loop gathers
MaxQuery == 40

RECURSIVE TrimEnd(_)
\* str::trim_end
TrimEnd(s) ==
    IF s # <<>> /\ s[Len(s)] \in {" ", Newline} THEN TrimEnd(SubSeq(s, 1, Len(s) - 1)) ELSE s

\* line.trim_end().ends_with(';')
EndsStatement(line) == TrimEnd(line) # <<>> /\ TrimEnd(line)[Len(TrimEnd(line))] = ";"

\* execute: the index it passes for column i of the loops: meta.column_name(i + 1),
\* let col_index = i + 1
CliIndex(i) == i + 1

\* execute: for i in 0..meta.num_columns() { .. meta.column_name(i + 1) .. }
CliHeader(meta) ==
    IF \E i \in 0..(num_columns(meta) - 1) : column_name(meta, CliIndex(i)).kind = "panic"
    THEN "panic" ELSE "ok"

\* execute: while rs.next() { for i in 0..meta.num_columns() { .. meta.column_type(i + 1) .. } }
CliRows(r, meta) ==
    IF /\ r.rows # <<>>
       /\ \E i \in 0..(num_columns(meta) - 1) : column_type(meta, CliIndex(i)).kind = "panic"
    THEN "panic" ELSE "ok"

\* the indices the header loop has passed to column_name when it ends or panics
CliPassed(meta) ==
    {CliIndex(i) : i \in {j \in 0..(num_columns(meta) - 1) :
                            \A h \in 0..(j - 1) : column_name(meta, CliIndex(h)).kind = "ok"}}

\* what execute has done when it ends: [kind, table, meta, passed]
CliFailed(kind, tbl) == [kind |-> kind, table |-> tbl, meta |-> <<>>, passed |-> {}]

\* execute, from rs.meta_data()? on
CliAfterMeta(m, r, tbl) ==
    IF m.kind # "ok" THEN CliFailed(m.kind, tbl)
    ELSE [kind |-> IF CliHeader(m.meta) # "ok" THEN "panic" ELSE CliRows(r, m.meta),
          table |-> tbl, meta |-> m.meta, passed |-> CliPassed(m.meta)]

CliAfterResult(d, r, tbl) == CliAfterMeta(ResultSetMetaData(d, r), r, tbl)

\* execute, from stmt.execute_query(&vec![])? on
CliAfterQuery(d, s, x, tbl) ==
    IF x.kind # "ok" THEN CliFailed(x.kind, x.table)
    ELSE CliAfterResult(d, NewResultSet(s, x, tbl, <<>>), x.table)

\* execute, from conn.create(sql)? on
CliAfterCreate(d, c, tbl) ==
    IF c.kind # "ok" THEN CliFailed(c.kind, tbl)
    ELSE CliAfterQuery(d, c.stmt, StatementExecute(c.stmt, <<>>, tbl), tbl)

\* execute(conn, sql): [kind, table, meta, passed]
CliExecute(d, sql, tbl) == CliAfterCreate(d, ConnectionCreate(d, sql), tbl)

\* the lines a user types
CliLines ==
    {SelectSql \o <<";">>, SelectSql, <<";", " ">>,
     InsertPrefix \o <<"1", ")", ";">>, InsertPrefix \o <<Quote, "a", Quote, ")", ";">>,
     InsertSql \o <<";">>, UnterminatedSql \o <<";">>, <<"x", ";">>}

\* main's query: the text gathered from the lines read since the last statement
Buffer == last.query

\* a loop that keeps the executed text in query
QueryKept(q, kind) == q

\* query = "".to_owned() after the match on execute's result, which a panic of
\* execute never reaches
QueryAfterExecute(q, kind) == IF kind = "panic" THEN q ELSE <<>>

\* the input loop is about to read a line
AtPrompt == Running /\ conn = "open" /\ last.op \in {"start", "line", "execute"}

\* main, up to the loop: driver.connect(url).unwrap()
CliStart(url) ==
    /\ conn = "none" /\ last.op = "init"
    /\ \E r \in {DriverConnect(driver, url)} :
          /\ conn' = IF r.kind = "ok" THEN "open" ELSE "none"
          /\ last' = [Ret("start", IF r.kind = "ok" THEN "ok" ELSE "panic") EXCEPT
                       !.attempts = r.attempts, !.url = url]
    /\ UNCHANGED <<driver, stmt, rs, table, inserted>>

\* Ok(ref line) if line.trim_end().ends_with(';'): the query is executed, the
\* error of a failed execution printed (flag), and the query emptied
ReadStatement(line) ==
    /\ AtPrompt
    /\ EndsStatement(line)
    /\ Len(Buffer) + Len(line) < MaxQuery
    /\ \E r \in {CliExecute(driver, Buffer \o TrimEnd(line), table)} :
          /\ Len(r.table) <= MaxRows
          /\ table' = r.table
          /\ last' = [Ret("execute", r.kind) EXCEPT
                       !.sql = Buffer \o TrimEnd(line), !.flag = (r.kind = "err"),
                       !.meta = r.meta, !.passed = r.passed,
                       !.query = QueryAfterExecute(Buffer \o TrimEnd(line), r.kind)]
    /\ UNCHANGED <<driver, conn, stmt, rs, inserted>>

\* Ok(ref line): query.push_str(line); query.push_str(" ")
ReadPartial(line) ==
    /\ AtPrompt
    /\ ~EndsStatement(line)
    /\ Len(Buffer) + Len(line) < MaxQuery
    /\ last' = [Ret("line", "ok") EXCEPT !.query = Buffer \o line \o <<" ">>]
    /\ UNCHANGED <<driver, conn, stmt, rs, table, inserted>>

\* Err(_) => break: main returns and the connection goes
ReadFails ==
    /\ AtPrompt
    /\ conn' = "none"
    /\ last' = Ret("exit", "ok")
    /\ UNCHANGED <<driver, stmt, rs, table, inserted>>

InitCli ==
    /\ driver \in {"mysql", "postgres"}
    /\ conn = "none"
    /\ stmt = NoStmt
    /\ rs = NoRS
    /\ table = <<>>
    /\ inserted = <<>>
    /\ last = Ret("init", "ok")

NextCli ==
    \/ \E url \in Urls : CliStart(url)
    \/ \E line \in CliLines : ReadStatement(line)
    \/ \E line \in CliLines : ReadPartial(line)
    \/ ReadFails

SpecCli == InitCli /\ [][NextCli]_vars

----------------------------------------------------------------------------
\* Properties of the rewriters.

\* token j of toks is a bind position: the sentinel '?' as a token of its own
BindPosition(toks, j) == toks[j].type = "Char" /\ toks[j].value = <<Sentinel>>
\* how many bind positions toks has up to and including token j
BindRank(toks, j) == Cardinality({k \in 1..j : BindPosition(toks, k)})
BindCount(toks) == BindRank(toks, Len(toks))

\* token t is atomic (a string literal, a quoted identifier or a comment) and
\* holds the sentinel character
GuardedSentinel(t) ==
    /\ \/ t.type \in {"SingleQuotedString", "Comment"}
       \/ t.type = "Word" /\ t.quote # ""
    /\ \E k \in 1..Len(t.value) : t.value[k] = Sentinel
HasGuardedSentinel(toks) == \E j \in 1..Len(toks) : GuardedSentinel(toks[j])

\* the text in which the k-th bind position of toks is the rendering of the k-th
\* value and every other token is its own text
MySQLExpected(toks, params) ==
    Concat([j \in 1..Len(toks) |->
              IF BindPosition(toks, j) THEN to_string(params[BindRank(toks, j)])
              ELSE Render(toks[j])])

\* the text in which the k-th bind position of toks is $k and every other token
\* is its own text
PgExpected(toks) ==
    Concat([j \in 1..Len(toks) |->
              IF BindPosition(toks, j) THEN <<"$">> \o NatText(BindRank(toks, j))
              ELSE Render(toks[j])])

\* a one-shot MySQL statement has just been executed
OneShotExecuted ==
    stmt.kind = "MySQLStatement" /\ last.op \in {"execute_query", "execute_update"}

\* a Postgres statement has just been made from last.sql
PgStatementMade == driver = "postgres" /\ last.op \in {"create", "prepare"}

EachSentinelReplaced(t, params, sent) ==
    (t.ok /\ BindCount(t.toks) = Len(params))
    => /\ sent = <<MySQLExpected(t.toks, params)>>
       /\ \A j \in 1..Len(t.toks) :
             BindPosition(t.toks, j) => to_string(params[BindRank(t.toks, j)]) # <<Sentinel>>

\* C1: when the SQL of a one-shot MySQL statement tokenizes with N sentinel
\* tokens and it is executed with exactly N values, the SQL handed to the
\* backend is the original token by token, except that the k-th sentinel is the
\* text rendering of the k-th value; no bind position is left as a sentinel.
C1_EachSentinelReplaced ==
    OneShotExecuted => EachSentinelReplaced(Tokenize(stmt.sql), last.params, last.sent)

C1_TwoSentinelsReplaced ==
    /\ OneShotExecuted
    /\ Tokenize(stmt.sql).ok
    /\ BindCount(Tokenize(stmt.sql).toks) = 2
    /\ Len(last.params) = 2
    /\ last.params[1] # last.params[2]
    /\ Len(last.sent) = 1

GuardedKeptMySQL(t, params, sent) ==
    (t.ok /\ HasGuardedSentinel(t.toks) /\ BindCount(t.toks) <= Len(params))
    => sent = <<MySQLExpected(t.toks, params)>>

GuardedKeptPg(t, kind, sql) ==
    (t.ok /\ HasGuardedSentinel(t.toks)) => (kind = "ok" /\ sql = PgExpected(t.toks))

\* C2: a '?' inside a string literal, a quoted identifier or a comment is
\* emitted as part of its token by both rewriters, and the values and the $k
\* numbers go to the sentinel tokens outside such tokens only, in order.
C2_GuardedSentinelKept ==
    /\ OneShotExecuted => GuardedKeptMySQL(Tokenize(stmt.sql), last.params, last.sent)
    /\ PgStatementMade => GuardedKeptPg(Tokenize(last.sql), last.kind, stmt.sql)

C2_GuardedBesideBind ==
    /\ OneShotExecuted
    /\ Tokenize(stmt.sql).ok
    /\ HasGuardedSentinel(Tokenize(stmt.sql).toks)
    /\ BindCount(Tokenize(stmt.sql).toks) = 1
    /\ Len(last.params) = 1
    /\ Len(last.sent) = 1

----------------------------------------------------------------------------
\* Properties of statements, result sets and connections.

ExecuteDone == last.op \in {"execute_query", "execute_update"}

\* "INSERT INTO test (a) VALUES ($1)": InsertSql as PConnection::prepare stores it
PgInsertSql == InsertPrefix \o <<"$", "1", ")">>

\* the bind positions of the SQL a statement holds, for the texts of SqlCatalogue
\* (none of which has a '?' or a '$' inside a literal)
PlaceholderCount(sql) ==
    Cardinality({k \in 1..Len(sql) : sql[k] = Sentinel \/ sql[k] = "$"})

\* C3: a MySQL or Postgres statement executed with fewer values than its SQL
\* has sentinels returns an error value, and no SQL has been handed to the
\* backend.
C3_FewerValuesCountError ==
    (/\ ExecuteDone
     /\ driver \in {"mysql", "postgres"}
     /\ Len(last.params) < PlaceholderCount(stmt.sql))
    => (last.kind = "err" /\ last.sent = <<>>)

\* the typed accessor that reads a value of v's kind, and what it returns for v
AccessorFor(v) ==
    CASE v.k = "Int32" -> "i32"
      [] v.k = "UInt32" -> "i64"
      [] OTHER -> "string"
SomeOf(v) == IF v.k = "String" THEN GotSome(0, v.s) ELSE GotSome(v.n, <<>>)

\* C4: on an adapter whose statements execute (all but ODBC), execute_update of
\* INSERT ... VALUES (?) with one value reports one affected row; and with one
\* row inserted from value v in the table, the accessor of v's kind at index 0
\* on the first row of the query returns Some(v).
C4_RoundTrip ==
    /\ (/\ last.op = "execute_update"
        /\ driver # "odbc"
        /\ stmt.sql \in {InsertSql, PgInsertSql}
        /\ Len(last.params) = 1)
       => (last.kind = "ok" /\ last.count = 1)
    /\ (/\ last.op = "get"
        /\ Len(inserted) = 1 /\ Len(rs.rows) = 1
        /\ rs.calls = 1
        /\ last.idx = 0
        /\ last.acc = AccessorFor(inserted[1]))
       => last.got = SomeOf(inserted[1])

\* C5: after each call of next() on a result set of N rows, the call returned
\* normally, and it returned true exactly when it was one of the first N calls.
\* (Every row of the model's result sets is fetched without a native error.)
C5_AdvanceTrueThenFalse ==
    (last.op = "next" /\ rs.open)
    => (last.kind = "ok" /\ last.flag = (rs.calls <= Len(rs.rows)))

C5_AdvancePastEnd ==
    /\ last.op = "next"
    /\ Len(rs.rows) = 2
    /\ rs.calls = Len(rs.rows) + 2
    /\ ~last.flag

\* C6: once next() has returned false on a result set, a typed accessor returns
\* an absent value or an error value: not a value, not a panic.
C6_AbsentAfterEnd ==
    (last.op = "get" /\ rs.ended) => (last.got = GotNone \/ last.got = GotErr)

\* C7: before the first next() on a result set, a typed accessor returns an
\* absent value.
C7_AbsentBeforeFirst ==
    (last.op = "get" /\ rs.calls = 0) => last.got = GotNone

\* C8: every meta_data() on one result set returns what the first one returned,
\* wherever the cursor is.
C8_MetaDataStable ==
    (last.op = "meta_data" /\ rs.seen # <<>>)
    => (last.kind = rs.seen[1].kind /\ last.meta = rs.seen[1].meta)

\* C9: when the SQL does not tokenize, Postgres create/prepare and the
\* execution of a one-shot MySQL statement return an error value.
C9_TokenizerErrorReturned ==
    /\ (PgStatementMade /\ ~Tokenize(last.sql).ok) => last.kind = "err"
    /\ (OneShotExecuted /\ ~Tokenize(stmt.sql).ok) => last.kind = "err"

\* C10: connect of the MySQL, Postgres and ODBC drivers returns a connection or
\* an error value for every url, having tried to connect at most once.
C10_ConnectReturns ==
    (last.op = "connect" /\ driver \in {"mysql", "postgres", "odbc"})
    => (last.kind \in {"ok", "err"} /\ last.attempts <= 1)

\* C11: on MySQL, Postgres and SQLite, prepare hands the SQL to the backend and
\* returns an error value when the backend finds a syntax error in it, while
\* create hands nothing to the backend and returns a statement for any SQL.
\* (Stated for the calls that return.)
C11_PrepareParsesCreateDefers ==
    (driver \in {"mysql", "postgres", "sqlite"} /\ last.kind # "panic")
    => /\ last.op = "prepare"
          => /\ Len(last.sent) = 1
             /\ last.sql = UnterminatedSql => last.kind = "err"
       /\ last.op = "create" => (last.sent = <<>> /\ last.kind = "ok")

\* C12: a statement has at most one live result set: while the result set of
\* execute_query is held, no execute_query or execute_update starts on the
\* statement, so the result set a caller advances and reads is always the one of
\* the latest query.
C12_OneLiveResultSet ==
    [][rs.open => last'.op \notin {"execute_query", "execute_update"}]_vars

\* a result set is held and has been advanced
C12_ResultSetHeld == rs.open /\ rs.calls >= 1 /\ stmt # NoStmt /\ last.op = "next"

\* C13: a connection has at most one live statement: while the statement of
\* create or prepare is held, no create or prepare is made on the connection.
C13_OneLiveStatement ==
    [][stmt # NoStmt => last'.op \notin {"create", "prepare"}]_vars

\* a statement is held and has been executed
C13_StatementHeld ==
    stmt # NoStmt /\ last.op \in {"execute_query", "execute_update"} /\ last.kind = "ok"

\* C14: result set, statement and connection go in that order: no result set is
\* held without its statement, no statement without its open connection, and no
\* operation of either is made on a closed connection.
C14_DestructionOrder ==
    /\ rs.open => stmt # NoStmt
    /\ stmt # NoStmt => conn = "open"
    /\ last.op \in {"create", "prepare", "execute_query", "execute_update",
                    "next", "get", "meta_data", "drop_result_set", "drop_statement"}
       => conn = "open"

\* the connection was closed after a statement of it was executed and dropped
C14_ClosedLast == last.op = "close" /\ conn = "none" /\ Len(table) >= 1

\* the cursor is on a row: every next() so far returned true, and there was one
OnRow == rs.open /\ rs.calls >= 1 /\ ~rs.ended

\* the cell an accessor call was about: the one at last.idx of the current row
CellRead == rs.rows[rs.calls][last.idx + 1]

\* an accessor was called on a cell of the current row
ReadOnRow == last.op = "get" /\ OnRow /\ last.idx + 1 <= Len(rs.rows[rs.calls])

\* C15: with the cursor on a row whose cell at the index is SQL NULL, every
\* typed accessor of every adapter returns Ok(None).
C15_NullIsNone ==
    (ReadOnRow /\ CellRead = NullCell) => last.got = GotNone

\* the accessor's kind cannot represent the cell: an integer outside the
\* accessor's range, or text that is no number read as an integer
Unrepresentable(acc, cell) ==
    \/ cell.t = "int" /\ acc \in {"i8", "i32"} /\ ~FitsAccessor(acc, cell.n)
    \/ cell.t = "text" /\ acc \in {"i8", "i32", "i64"} /\ ~TextAsInt(cell.s).ok

\* C16: with the cursor on a row, an accessor whose kind cannot represent the
\* cell returns an error value: no panic, no other value.
C16_ConversionError ==
    (ReadOnRow /\ Unrepresentable(last.acc, CellRead)) => last.got = GotErr

\* the native types an adapter's to_rdbc_type names
HasMapping(d, ntype) ==
    CASE d = "mysql" -> MySQLToRdbcType(ntype) # "panic"
      [] d = "postgres" -> ntype = ""
      [] OTHER -> ntype = "INT"

\* C17: meta_data() on a result set with a column of a native type the adapter
\* has no mapping for reports an error to the caller: it neither gives the column
\* a DataType nor panics.
C17_UnmappedTypeIsError ==
    (/\ last.op = "meta_data"
     /\ \E k \in 1..Len(rs.cols) : ~HasMapping(driver, rs.cols[k].ntype))
    => last.kind = "err"

\* each adapter's to_rdbc_type
ToRdbcType(d, ntype) ==
    CASE d = "mysql" -> MySQLToRdbcType(ntype)
      [] d = "postgres" -> PgToRdbcType(ntype)
      [] OTHER -> SqliteToRdbcType(ntype)

\* C19: on the meta data of a result set of columns c_0 .. c_(n-1), num_columns()
\* is n, and column_name(i) and column_type(i) for 0 <= i < n are the name and
\* the DataType of c_i.
C19_ColumnsInOrder ==
    /\ last.op = "num_columns" => last.count = Len(rs.cols)
    /\ (last.op = "column_name" /\ last.idx < Len(rs.cols))
       => (last.kind = "ok" /\ last.name = rs.cols[last.idx + 1].name)
    /\ (last.op = "column_type" /\ last.idx < Len(rs.cols))
       => (/\ last.kind = "ok"
           /\ last.type = ToRdbcType(driver, rs.cols[last.idx + 1].ntype))

\* the name of the second of two differently named columns was asked for
C19_SecondOfTwo ==
    /\ last.op = "column_name" /\ last.idx = 1 /\ last.kind = "ok"
    /\ Len(rs.cols) = 2 /\ rs.cols[1].name # rs.cols[2].name

\* C20: when the SQL given to Postgres prepare tokenizes with N sentinel tokens,
\* the statement's SQL is the original token by token except that the k-th
\* sentinel is $k, and read again it has no sentinel token left.
C20_NumberedPlaceholders ==
    (PgStatementMade /\ Tokenize(last.sql).ok)
    => /\ last.kind = "ok"
       /\ stmt.sql = PgExpected(Tokenize(last.sql).toks)
       /\ Tokenize(stmt.sql).ok => BindCount(Tokenize(stmt.sql).toks) = 0

\* C18: in the input loop of rdbc-cli, the execution of an entered statement
\* either succeeds or fails with its error printed, and the loop is back at its
\* prompt: no statement ends the process.
C18_StatementNeverKills ==
    last.op = "execute"
    => /\ last.kind \in {"ok", "err"}
       /\ last.kind = "err" => last.flag
       /\ AtPrompt

\* C21: a one-shot MySQL statement executed with more values than its SQL has
\* sentinel tokens returns an error value, and no SQL has been handed to the
\* backend.
C21_MoreValuesCountError ==
    (/\ OneShotExecuted
     /\ Tokenize(stmt.sql).ok
     /\ Len(last.params) > BindCount(Tokenize(stmt.sql).toks))
    => (last.kind = "err" /\ last.sent = <<>>)

\* C22: when the native client fails to fetch a row, the next() that fetched it
\* returns an error value, and so does an accessor called on that row: the
\* failure is never a row that exists with absent values.
C22_FetchErrorReported ==
    /\ (last.op = "next" /\ rs.failing # 0 /\ rs.calls = rs.failing)
       => last.kind = "err"
    /\ (last.op = "get" /\ rs.failing # 0 /\ rs.calls = rs.failing)
       => last.got = GotErr

\* C23: every driver's connect hands the caller's url to the native client as it
\* is: what the native client opens is what the url names.
C23_UrlPassedOn ==
    last.op = "connect" => last.opened = last.url

\* C24: meta_data() leaves the cursor where it was: the rows of the result set,
\* the rows taken so far, the current row and what next() has returned are what
\* they were before the call, before and during iteration.
C24_MetaDataKeepsCursor ==
    [][last'.op = "meta_data"
       => /\ [rs' EXCEPT !.seen = rs.seen] = rs
          /\ table' = table]_vars

\* meta_data() returned with the cursor on the first of two rows
C24_MetaDataOnRow ==
    /\ last.op = "meta_data" /\ last.kind = "ok"
    /\ rs.calls = 1 /\ ~rs.ended /\ Len(rs.rows) = 2

\* C25: when execute of rdbc-cli has the meta data of a result set with at least
\* one column, every index it passes lies in 0 .. num_columns() - 1, and the
\* first column, index 0, is among them.
C25_CliIndicesInRange ==
    (last.op = "execute" /\ Len(last.meta) >= 1)
    => /\ last.passed \subseteq 0..(Len(last.meta) - 1)
       /\ 0 \in last.passed

\* the value a cell holds, as an accessor of the cell's own kind returns it
ValueOf(cell) == IF cell.t = "text" THEN GotSome(0, cell.s) ELSE GotSome(cell.n, <<>>)

\* the accessor is of the cell's own kind
OwnKind(acc, cell) == (acc = "string") = (cell.t = "text")

\* C26: with the cursor set by the k-th successful next(), an accessor that
\* returns a value returns the value of row k of the result; and the cursor
\* never goes back: the rows taken and the calls of next() only grow.
C26_ForwardInOrder ==
    /\ []((ReadOnRow /\ last.got.some /\ OwnKind(last.acc, CellRead))
          => last.got = ValueOf(CellRead))
    /\ [][(rs.open /\ rs'.open) => (rs'.i >= rs.i /\ rs'.calls >= rs.calls)]_vars

\* the second of two different rows was read
C26_SecondRowRead ==
    /\ ReadOnRow /\ last.got.some
    /\ rs.calls = 2 /\ Len(rs.rows) = 2 /\ rs.rows[1] # rs.rows[2]
    /\ driver = "postgres"

\* C27: an execution of a one-shot MySQL statement leaves the statement's SQL
\* as it was, and the SQL it hands to the backend is the statement's SQL with the
\* sentinels replaced by the values of this call.
C27_StoredSqlKept ==
    /\ [][last'.op \in {"execute_query", "execute_update"} => stmt' = stmt]_vars
    /\ []((OneShotExecuted /\ last.sent # <<>>)
          => last.sent = <<MySQLExpected(Tokenize(stmt.sql).toks, last.params)>>)

\* a one-shot INSERT with a sentinel has put a second, different value in the table
C27_ExecutedAgain ==
    /\ OneShotExecuted /\ last.kind = "ok"
    /\ stmt.sql = InsertSql
    /\ Len(inserted) = 2 /\ inserted[1] # inserted[2]
    /\ last.params = <<inserted[2]>>

\* what rewrite emits for tokens t and values params keeps every other token
OtherTokensKeptMySQL(t, params, sent) ==
    /\ (t.ok /\ BindCount(t.toks) <= Len(params))
       => sent = <<MySQLExpected(t.toks, params)>>
    /\ (t.ok /\ BindCount(t.toks) = 0 /\ params = <<>>)
       => sent = <<RenderAll(t.toks)>>

\* what prepare stores for tokens t keeps every other token
OtherTokensKeptPg(t, kind, sql) ==
    t.ok => /\ kind = "ok"
            /\ sql = PgExpected(t.toks)
            /\ BindCount(t.toks) = 0 => sql = RenderAll(t.toks)

\* C28: both rewriters emit every token that is no sentinel token in its place
\* and as its own text; a text without a sentinel, with no values, is emitted
\* as the rendering of its own tokens.
C28_OtherTokensKept ==
    /\ OneShotExecuted => OtherTokensKeptMySQL(Tokenize(stmt.sql), last.params, last.sent)
    /\ PgStatementMade => OtherTokensKeptPg(Tokenize(last.sql), last.kind, stmt.sql)

\* the tokens toks have white space next to a sentinel token
SentinelBesideSpace(toks) ==
    \E j \in 1..(Len(toks) - 1) :
        BindPosition(toks, j) /\ toks[j + 1].type = "Whitespace"

\* a one-shot statement with white space after a sentinel was rewritten
C28_SpaceAfterSentinel ==
    /\ OneShotExecuted
    /\ Tokenize(stmt.sql).ok
    /\ SentinelBesideSpace(Tokenize(stmt.sql).toks)
    /\ Len(last.sent) = 1

\* C29: in the input loop of rdbc-cli, the query is empty after every execution
\* that returned, with or without an error; the text executed is what the lines
\* since the last execution gathered, ending with the line that ends in ';'; and
\* a statement executed right after another is the text of its own line alone.
C29_QueryEmptied ==
    /\ []((last.op = "execute" /\ last.kind \in {"ok", "err"}) => last.query = <<>>)
    /\ [][last'.op = "execute"
          => \E line \in CliLines : last'.sql = last.query \o TrimEnd(line)]_vars
    /\ [][(last.op = "execute" /\ last'.op = "execute")
          => last'.sql \in {TrimEnd(line) : line \in CliLines}]_vars

\* a query gathered from two lines was executed and returned an error
C29_GatheredFailed ==
    /\ last.op = "execute" /\ last.kind = "err" /\ last.flag
    /\ Len(last.sql) > Len(SelectSql)
    /\ StartsWith(last.sql, SelectSql \o <<" ">>)

============================================================================
